---- MODULE Spec2Model ----
(***************************************************************************)
(* Model of backtest.py: the step loop of the delta-neutral concentrated   *)
(* liquidity strategy (base + limit position, lending/borrowing hedge).    *)
(*                                                                         *)
(* Arithmetic.  The program computes with IEEE doubles; the model computes *)
(* with exact rationals (arbitrary precision), so every equality below is  *)
(* an equality of real numbers, not of rounded doubles.  Two irrational    *)
(* quantities have rational stand-ins, stated where they are defined:      *)
(* the square root of the price of a tick (SqrtPriceOfTick) and the        *)
(* per-step compounding factor (CompoundFactor).                           *)
(***************************************************************************)
EXTENDS Integers, Sequences, FiniteSets, TLC

(***************************************************************************)
(* Arbitrary-precision naturals: little-endian sequences of limbs in       *)
(* 0..Base-1 without a most-significant zero limb; <<>> is zero.           *)
(***************************************************************************)
Base == 2^15

\* Op(... Op(Op(s, lo), lo + 1) ..., hi), by halves of lo..hi.  The value of
\* the lower half is bound before the upper half starts, so that the depth
\* of the evaluation is logarithmic in hi - lo.
RECURSIVE FoldUp(_, _, _, _)
FoldUp(Op(_, _), s, lo, hi) ==
  IF lo > hi THEN s
  ELSE IF lo = hi THEN Op(s, lo)
  ELSE CHOOSE r \in { FoldUp(Op, m, (lo + hi) \div 2 + 1, hi) :
                      m \in {FoldUp(Op, s, lo, (lo + hi) \div 2)} } : TRUE

MaxOf(S) == CHOOSE k \in S : \A j \in S : j <= k

MAt(a, k) == IF k <= Len(a) THEN a[k] ELSE 0

MTrim(m) ==
  LET nz == {k \in 1..Len(m) : m[k] # 0}
  IN  IF nz = {} THEN <<>> ELSE SubSeq(m, 1, MaxOf(nz))

RECURSIVE MFromNat(_)
MFromNat(n) == IF n = 0 THEN <<>> ELSE <<n % Base>> \o MFromNat(n \div Base)

\* one limb of a loop: s.d are the limbs so far, s.c the carry; t is the
\* value at this limb
MCarry(s, t) == [d |-> Append(s.d, t % Base), c |-> t \div Base]

MStart == [d |-> <<>>, c |-> 0]

\* the limbs of a finished loop, with its last carry
MFinish(r) == IF r.c = 0 THEN r.d ELSE Append(r.d, r.c)

MAdd(a, b) ==
  IF a = <<>> THEN b
  ELSE IF b = <<>> THEN a
  ELSE MFinish(FoldUp(LAMBDA s, k : MCarry(s, MAt(a, k) + MAt(b, k) + s.c),
                      MStart, 1, IF Len(a) >= Len(b) THEN Len(a) ELSE Len(b)))

\* a - b for a >= b (a negative t borrows: t \div Base = -1)
MSub(a, b) ==
  IF b = <<>> THEN a
  ELSE MTrim(FoldUp(LAMBDA s, k : MCarry(s, a[k] - MAt(b, k) + s.c),
                    MStart, 1, Len(a)).d)

\* -1, 0, 1 as a < b, a = b, a > b
MCmp(a, b) ==
  IF Len(a) < Len(b) THEN -1
  ELSE IF Len(a) > Len(b) THEN 1
  ELSE LET diff == {k \in 1..Len(a) : a[k] # b[k]}
       IN  IF diff = {} THEN 0
           ELSE IF a[MaxOf(diff)] < b[MaxOf(diff)] THEN -1 ELSE 1

\* a * d for a limb d
MMulSmall(a, d) ==
  IF a = <<>> \/ d = 0 THEN <<>>
  ELSE MFinish(FoldUp(LAMBDA s, k : MCarry(s, a[k] * d + s.c), MStart, 1, Len(a)))

MMul(a, b) ==
  IF a = <<>> \/ b = <<>> THEN <<>>
  ELSE IF b = <<1>> THEN a
  ELSE IF a = <<1>> THEN b
  ELSE FoldUp(LAMBDA s, k :
                IF b[k] = 0 THEN s
                ELSE MAdd(s, [j \in 1..(k - 1) |-> 0] \o MMulSmall(a, b[k])),
              <<>>, 1, Len(b))

\* a % p and a \div p for a small p (p < Base), from the top limb down
MMod(a, p) ==
  FoldUp(LAMBDA r, k : (r * Base + a[Len(a) + 1 - k]) % p, 0, 1, Len(a))

MDiv(a, p) ==
  MTrim(FoldUp(LAMBDA s, k :
                 LET v == s.c * Base + a[Len(a) + 1 - k]
                 IN  [d |-> <<v \div p>> \o s.d, c |-> v % p],
               MStart, 1, Len(a)).d)

(***************************************************************************)
(* Exact rationals [s, n, d]: sign s in {-1,0,1}, numerator magnitude n,   *)
(* denominator d > 0.  Values are compared by cross-multiplication, never  *)
(* by representation.                                                      *)
(***************************************************************************)
Rat(s, n, d) == [s |-> IF n = <<>> THEN 0 ELSE s, n |-> n, d |-> d]

RInt(k) ==
  IF k >= 0 THEN Rat(1, MFromNat(k), <<1>>) ELSE Rat(-1, MFromNat(-k), <<1>>)

RFrac(k, m) ==
  IF k >= 0 THEN Rat(1, MFromNat(k), MFromNat(m))
  ELSE Rat(-1, MFromNat(-k), MFromNat(m))

RZero == RInt(0)
ROne == RInt(1)

RNeg(a) == Rat(-a.s, a.n, a.d)

\* signed sum of two magnitudes of opposite signs, c = MCmp(m1, m2)
SDiff(s1, m1, s2, m2, d, c) ==
  IF c = 0 THEN Rat(0, <<>>, <<1>>)
  ELSE IF c > 0 THEN Rat(s1, MSub(m1, m2), d)
  ELSE Rat(s2, MSub(m2, m1), d)

\* signed sum of two signed magnitudes
SAdd(s1, m1, s2, m2, d) ==
  IF s1 = 0 THEN Rat(s2, m2, d)
  ELSE IF s2 = 0 THEN Rat(s1, m1, d)
  ELSE IF s1 = s2 THEN Rat(s1, MAdd(m1, m2), d)
  ELSE SDiff(s1, m1, s2, m2, d, MCmp(m1, m2))

\* Cancel the common small factors of numerator and denominator: the primes
\* up to 229, the smallest of them by their powers first.
SmallPrimes ==
  <<16384, 128, 16, 4, 2, 19683, 27, 3, 15625, 25, 5, 2401, 7, 11, 13, 17,
    19, 23, 29, 31, 37, 41, 43, 47, 53, 59, 61, 67, 71, 73, 79, 83, 89, 97,
    101, 103, 107, 109, 113, 127, 131, 137, 139, 149, 151, 157, 163, 167,
    173, 179, 181, 191, 193, 197, 199, 211, 223, 227, 229>>

\* nd = <<n, d>> with every common factor p removed
RECURSIVE CancelPrime(_, _)
CancelPrime(nd, p) ==
  IF MMod(nd[1], p) = 0 /\ MMod(nd[2], p) = 0
  THEN CancelPrime(<<MDiv(nd[1], p), MDiv(nd[2], p)>>, p)
  ELSE nd

RatOfPair(s, nd) == Rat(s, nd[1], nd[2])

RNorm(a) ==
  IF a.s = 0 THEN Rat(0, <<>>, <<1>>)
  ELSE RatOfPair(a.s, FoldUp(LAMBDA nd, k : CancelPrime(nd, SmallPrimes[k]),
                             <<a.n, a.d>>, 1, Len(SmallPrimes)))

\* sums are kept in lowest terms (as far as RNorm goes): their operands'
\* denominators multiply
RAdd(a, b) ==
  IF a.s = 0 THEN b
  ELSE IF b.s = 0 THEN a
  ELSE IF a.d = b.d THEN SAdd(a.s, a.n, b.s, b.n, a.d)
  ELSE RNorm(SAdd(a.s, MMul(a.n, b.d), b.s, MMul(b.n, a.d), MMul(a.d, b.d)))

RSub(a, b) == RAdd(a, RNeg(b))

RMul(a, b) ==
  IF a.s = 0 \/ b.s = 0 THEN Rat(0, <<>>, <<1>>)
  ELSE Rat(a.s * b.s, MMul(a.n, b.n), MMul(a.d, b.d))

\* a / b for b # 0
RDiv(a, b) ==
  IF a.s = 0 THEN Rat(0, <<>>, <<1>>)
  ELSE Rat(a.s * b.s, MMul(a.n, b.d), MMul(a.d, b.n))

RSign(a) == a.s
RIsZero(a) == a.s = 0

RCmp(a, b) == RSign(RSub(a, b))
RLess(a, b) == RCmp(a, b) < 0
RLeq(a, b) == RCmp(a, b) <= 0
REq(a, b) == RCmp(a, b) = 0

(***************************************************************************)
(* Program constants (backtest.py, lines 250-271).                         *)
(***************************************************************************)
spacing == 60
start_value == 1
base_lower_bound_ticks == 300
base_upper_bound_ticks == 300
base_lower_trigger_ticks == -30
base_upper_trigger_ticks == -30
limit_bound_ticks == 400
limit_trigger_ticks == 150
delta_threshold == RFrac(1, 10)
ProtocolMaxTick == 887272
StepsPerYear == 365 * 24 * 12

\* 887272//spacing*spacing and -887272//spacing*spacing+spacing
MaxAlignedTick == (ProtocolMaxTick \div spacing) * spacing
MinAlignedTick == ((-ProtocolMaxTick) \div spacing) * spacing + spacing

\* faulty variant: the tick is not aligned to the spacing
FloorToSpacingMissing(t) == t

\* t//spacing*spacing (floor division, as Python's //)
FloorToSpacing(t) == (t \div spacing) * spacing

(***************************************************************************)
(* Tick -> price.  The program's price is 1.0001^tick * 10^12, whose       *)
(* square root is irrational.  SqrtPriceOfTick is a positive integer       *)
(* stand-in for sqrt(price): non-decreasing in the tick, strictly          *)
(* increasing across spacing-aligned ticks, and strictly between the two   *)
(* neighbouring aligned ticks for every unaligned tick.  The ticks near    *)
(* the protocol limits are folded next to the central window (FoldCell) so *)
(* that the table stays small.  PriceOfTick is its square, so that the     *)
(* program's np.sqrt(price) is exact (Sqrt).                               *)
(***************************************************************************)
CentralCells == 14
FoldShift == (ProtocolMaxTick \div spacing) - 2 * CentralCells

FoldCell(c) ==
  IF c > CentralCells THEN c - FoldShift
  ELSE IF c < -CentralCells THEN c + FoldShift
  ELSE c

SqrtPriceOfTick(t) ==
  2 * (FoldCell(t \div spacing) + 3 * CentralCells)
    + (IF t % spacing = 0 THEN 0 ELSE 1)

PriceOfTick(t) == SqrtPriceOfTick(t) * SqrtPriceOfTick(t)

\* np.sqrt of a price (a perfect square in this model)
Sqrt(p) == CHOOSE r \in 0..p : r * r = p

(***************************************************************************)
(* get_quantities (lines 9-15).  A zero liquidity gives (0, 0) whatever    *)
(* the prices are: the factors it multiplies are finite.                   *)
(***************************************************************************)
ConditionalPrice(lower_price, upper_price, pool_price) ==
    lower_price * (IF pool_price <= lower_price THEN 1 ELSE 0)
  + pool_price * (IF lower_price < pool_price /\ pool_price < upper_price THEN 1 ELSE 0)
  + upper_price * (IF upper_price <= pool_price THEN 1 ELSE 0)

\* faulty variant: the pool price is not clamped to the position's range
get_quantitiesUnclamped(liquidity, lower_price, upper_price, pool_price) ==
  IF RIsZero(liquidity) THEN [x |-> RZero, y |-> RZero]
  ELSE [x |-> RMul(liquidity, RSub(RFrac(1, Sqrt(pool_price)),
                                   RFrac(1, Sqrt(upper_price)))),
        y |-> RMul(liquidity, RInt(Sqrt(pool_price) - Sqrt(lower_price)))]

get_quantities(liquidity, lower_price, upper_price, pool_price) ==
  IF RIsZero(liquidity) THEN [x |-> RZero, y |-> RZero]
  ELSE LET conditional_price == ConditionalPrice(lower_price, upper_price, pool_price)
           sc == Sqrt(conditional_price)
       IN  [x |-> RMul(liquidity, RSub(RFrac(1, sc), RFrac(1, Sqrt(upper_price)))),
            y |-> RMul(liquidity, RInt(sc - Sqrt(lower_price)))]

(***************************************************************************)
(* mint_position (lines 17-41)                                             *)
(***************************************************************************)
\* faulty variant: an in-range position takes all of token x
mint_positionKeepingX(x, y, lower_price, upper_price, pool_price) ==
  IF lower_price < pool_price /\ pool_price < upper_price
  THEN [liquidity |-> RDiv(y, RInt(Sqrt(pool_price) - Sqrt(lower_price))),
        x |-> x, y |-> y]
  ELSE IF pool_price <= lower_price
  THEN [liquidity |-> RDiv(x, RSub(RFrac(1, Sqrt(lower_price)),
                                   RFrac(1, Sqrt(upper_price)))),
        x |-> x, y |-> RZero]
  ELSE [liquidity |-> RDiv(y, RInt(Sqrt(upper_price) - Sqrt(lower_price))),
        x |-> RZero, y |-> y]

\* faulty variant: token x is always assumed to be in excess
mint_positionYFirstOnly(x, y, lower_price, upper_price, pool_price) ==
  IF lower_price < pool_price /\ pool_price < upper_price
  THEN LET liq_y == RDiv(y, RInt(Sqrt(pool_price) - Sqrt(lower_price)))
       IN  [liquidity |-> liq_y,
            x |-> RMul(liq_y, RSub(RFrac(1, Sqrt(pool_price)),
                                   RFrac(1, Sqrt(upper_price)))),
            y |-> y]
  ELSE IF pool_price <= lower_price
  THEN [liquidity |-> RDiv(x, RSub(RFrac(1, Sqrt(lower_price)),
                                   RFrac(1, Sqrt(upper_price)))),
        x |-> x, y |-> RZero]
  ELSE [liquidity |-> RDiv(y, RInt(Sqrt(upper_price) - Sqrt(lower_price))),
        x |-> RZero, y |-> y]

\* faulty variant: token y of the resized position measured from price 0
\* instead of the lower price
SizedByXFromZero(position_x, position_liquidity, sp, sl) ==
  [liquidity |-> position_liquidity, x |-> position_x,
   y |-> RMul(position_liquidity, RInt(sp))]

\* lines 27-29: token y is in excess, the position is sized by token x;
\* sp, sl, su are the square roots of the pool, lower and upper price
SizedByX(position_x, position_liquidity, sp, sl) ==
  [liquidity |-> position_liquidity, x |-> position_x,
   y |-> RMul(position_liquidity, RInt(sp - sl))]

\* line 26, on the position sized by token y (lines 22-24)
SizedByY(x, position_y, position_liquidity, position_x, sp, sl, su) ==
  IF RLess(x, position_x)
  THEN SizedByX(x, RDiv(x, RSub(RFrac(1, sp), RFrac(1, su))), sp, sl)
  ELSE [liquidity |-> position_liquidity, x |-> position_x, y |-> position_y]

\* lines 22-24: position_x of the liquidity that takes all of token y
InRange(x, position_y, position_liquidity, sp, sl, su) ==
  SizedByY(x, position_y, position_liquidity,
           RMul(position_liquidity, RSub(RFrac(1, sp), RFrac(1, su))),
           sp, sl, su)

mint_position(x, y, lower_price, upper_price, pool_price) ==
  IF lower_price < pool_price /\ pool_price < upper_price
  THEN InRange(x, y, RDiv(y, RInt(Sqrt(pool_price) - Sqrt(lower_price))),
               Sqrt(pool_price), Sqrt(lower_price), Sqrt(upper_price))
  ELSE IF pool_price <= lower_price
  THEN [liquidity |-> RDiv(x, RSub(RFrac(1, Sqrt(lower_price)),
                                   RFrac(1, Sqrt(upper_price)))),
        x |-> x, y |-> RZero]
  ELSE [liquidity |-> RDiv(y, RInt(Sqrt(upper_price) - Sqrt(lower_price))),
        x |-> RZero, y |-> y]

(***************************************************************************)
(* Inputs.  A bar (a row of the resampled table, lines 45-48) carries the  *)
(* tick of the last swap of its own 5-minute interval, or the previous     *)
(* bar's tick when the interval has no swap (ffill).  The swaps of one     *)
(* interval are a sequence of records of the swaps table.                  *)
(***************************************************************************)
NumSteps == 3
PoolLiquidity == 1000

SwapAt(t, f) == [tick |-> t, liquidity |-> PoolLiquidity, fees_x |-> f, fees_y |-> f]

\* the tick of the bar whose interval holds the swaps sw, after a bar at prev
BarTick(sw, prev) == IF sw = <<>> THEN prev ELSE sw[Len(sw)].tick

\* faulty variant: (1+apy)**1/(365*24*12), the exponent not parenthesised
CompoundFactorMisparenthesised(apy) == RFrac(apy[2] + apy[1], apy[2] * StepsPerYear)

\* (1+apy)^(1/(365*24*12)) is irrational for apy > 0: the stand-in is its
\* first-order expansion, exact (= 1) for apy = 0.  apy is <<num, den>>.
CompoundFactor(apy) == RAdd(ROne, RFrac(apy[1], apy[2] * StepsPerYear))

\* lending_apy = 0.05 and borrowing_apy = 0.02 (lines 270-271), and a run
\* with both rates zero
ShippedRates == [lending_apy |-> <<5, 100>>, borrowing_apy |-> <<2, 100>>]
ZeroRates == [lending_apy |-> <<0, 1>>, borrowing_apy |-> <<0, 1>>]

\* The markets a run is drawn from: the ticks the first bar may have, the
\* swaps one interval may hold, and the rates.  One market moves around
\* tick 0, the other sits at the protocol's tick limits.
CentralSwaps ==
  { <<>>, <<SwapAt(-300, 1)>>, <<SwapAt(330, 1)>>,
    <<SwapAt(330, 1), SwapAt(30, 1)>> }
LimitSwaps ==
  { <<>>, <<SwapAt(-ProtocolMaxTick, 1)>>, <<SwapAt(ProtocolMaxTick, 1)>> }

Markets ==
  { [first |-> {-300, 30, 330}, choices |-> CentralSwaps, rates |-> ShippedRates],
    [first |-> {-300, 30, 330}, choices |-> CentralSwaps, rates |-> ZeroRates],
    [first |-> {-ProtocolMaxTick, ProtocolMaxTick}, choices |-> LimitSwaps,
     rates |-> ShippedRates] }

(***************************************************************************)
(* State.  result is the table (row k of the program is result[k+1]);      *)
(* swaps[k+1] are the swaps of the interval of row k; market is the input  *)
(* source, with lending_apy and borrowing_apy; i is the loop index; loc holds the local *)
(* variables of backtest() as the last iteration left them; columns holds  *)
(* the columns computed after the loop; pc is the position in backtest().  *)
(***************************************************************************)
VARIABLES result, swaps, market, i, loc, columns, pc

vars == <<result, swaps, market, i, loc, columns, pc>>

\* a row as lines 50-67 initialise it
NewRow(t) ==
  [tick |-> t, fees_x |-> RZero, fees_y |-> RZero,
   outside_x |-> RZero, outside_y |-> RZero,
   base_lower_bound_tick |-> 0, base_upper_bound_tick |-> 0,
   base_lower_trigger_tick |-> 0, base_upper_trigger_tick |-> 0,
   base_liquidity |-> RZero,
   limit_lower_bound_tick |-> 0, limit_upper_bound_tick |-> 0,
   limit_lower_trigger_tick |-> 0, limit_upper_trigger_tick |-> 0,
   limit_liquidity |-> RZero,
   rebalance |-> FALSE, reason |-> "none",
   lent |-> RZero, borrowed |-> RZero]

NoLocals == [set |-> FALSE]

(***************************************************************************)
(* Fees (lines 94-99).  A swap whose share is 0/0 is NaN and is skipped by *)
(* the sum.                                                                *)
(***************************************************************************)
\* faulty variant: only the base position earns fees
gamma_liquidityBaseOnly(swap, base_liquidity, bl, bu, limit_liquidity, ll, lu) ==
  IF bl <= swap.tick /\ swap.tick < bu THEN base_liquidity ELSE RZero

gamma_liquidity(swap, base_liquidity, bl, bu, limit_liquidity, ll, lu) ==
  RAdd(IF bl <= swap.tick /\ swap.tick < bu THEN base_liquidity ELSE RZero,
       IF ll <= swap.tick /\ swap.tick < lu THEN limit_liquidity ELSE RZero)

\* gl / total, the NaN of 0/0 counted as 0 by the sum
ShareOf(gl, total) == IF RIsZero(total) THEN RZero ELSE RDiv(gl, total)

gamma_share(gl, liquidity) == ShareOf(gl, RAdd(gl, RInt(liquidity)))

\* one term of the sums of lines 98-99
AddFees(share, swap, rest) ==
  [x |-> RAdd(RMul(share, RInt(swap.fees_x)), rest.x),
   y |-> RAdd(RMul(share, RInt(swap.fees_y)), rest.y)]

RECURSIVE SumFees(_, _, _, _, _, _, _, _)
SumFees(sw, k, base_liquidity, bl, bu, limit_liquidity, ll, lu) ==
  IF k > Len(sw) THEN [x |-> RZero, y |-> RZero]
  ELSE AddFees(gamma_share(gamma_liquidity(sw[k], base_liquidity, bl, bu,
                                           limit_liquidity, ll, lu),
                           sw[k].liquidity),
               sw[k],
               SumFees(sw, k + 1, base_liquidity, bl, bu, limit_liquidity, ll, lu))

(***************************************************************************)
(* Triggers (lines 103-111)                                                *)
(***************************************************************************)
lower_trigger_tick(lower_bound_tick, trigger_ticks) == lower_bound_tick - trigger_ticks
upper_trigger_tick(upper_bound_tick, trigger_ticks) == upper_bound_tick + trigger_ticks

\* faulty variant: the upper trigger tick counted inside the band
triggeredClosedAbove(lower_trigger, upper_trigger, pool_tick) ==
  ~(lower_trigger <= pool_tick /\ pool_tick <= upper_trigger)

triggered(lower_trigger, upper_trigger, pool_tick) ==
  ~(lower_trigger <= pool_tick /\ pool_tick < upper_trigger)

(***************************************************************************)
(* Hedging (lines 120-125).  delta/borrowed with borrowed = 0 is numpy's   *)
(* nan (delta = 0) or +-inf: no comparison with nan is true.               *)
(***************************************************************************)
\* faulty variant: the upper bound is compared with the protocol max tick
\* itself, not with its aligned value
current_positionUnaligned(base_lower_bound_tick, base_upper_bound_tick) ==
    (IF base_upper_bound_tick = ProtocolMaxTick THEN 1 ELSE 0)
  - (IF base_lower_bound_tick = MinAlignedTick THEN 1 ELSE 0)

current_position(base_lower_bound_tick, base_upper_bound_tick) ==
    (IF base_upper_bound_tick = MaxAlignedTick THEN 1 ELSE 0)
  - (IF base_lower_bound_tick = MinAlignedTick THEN 1 ELSE 0)

\* line 125 on ratio = delta/borrowed
PositionOfRatio(ratio) ==
    (IF RLess(ratio, RNeg(delta_threshold)) THEN 1 ELSE 0)
  - (IF RLess(delta_threshold, ratio) THEN 1 ELSE 0)

target_position(delta, borrowed) ==
  IF RIsZero(borrowed)
  THEN (IF RSign(delta) < 0 THEN 1 ELSE 0) - (IF RSign(delta) > 0 THEN 1 ELSE 0)
  ELSE PositionOfRatio(RDiv(delta, borrowed))

(***************************************************************************)
(* The rebalance decision (lines 129-145): later assignments overwrite.    *)
(***************************************************************************)
\* faulty variant: the first step is not forced
DecideWithoutInitialization(step, limit_triggered, base_triggered, cur, tgt) ==
  LET r1 == IF limit_triggered THEN "limit_trigger" ELSE "none"
      r2 == IF base_triggered THEN "base_trigger" ELSE r1
      r3 == IF cur # tgt THEN "delta" ELSE r2
  IN  [rebalance |-> limit_triggered \/ base_triggered \/ cur # tgt, reason |-> r3]

\* faulty variant: a breached limit trigger alone does not rebalance
DecideIgnoringLimit(step, limit_triggered, base_triggered, cur, tgt) ==
  LET r1 == IF limit_triggered THEN "limit_trigger" ELSE "none"
      r2 == IF base_triggered THEN "base_trigger" ELSE r1
      r3 == IF cur # tgt THEN "delta" ELSE r2
      r4 == IF step = 0 THEN "initialization" ELSE r3
  IN  [rebalance |-> base_triggered \/ cur # tgt \/ step = 0, reason |-> r4]

\* faulty variant: base_trigger assigned after delta, so that it wins
DecideBaseFirst(step, limit_triggered, base_triggered, cur, tgt) ==
  LET r1 == IF limit_triggered THEN "limit_trigger" ELSE "none"
      r2 == IF cur # tgt THEN "delta" ELSE r1
      r3 == IF base_triggered THEN "base_trigger" ELSE r2
      r4 == IF step = 0 THEN "initialization" ELSE r3
  IN  [rebalance |-> limit_triggered \/ base_triggered \/ cur # tgt \/ step = 0,
       reason |-> r4]

Decide(step, limit_triggered, base_triggered, cur, tgt) ==
  LET r1 == IF limit_triggered THEN "limit_trigger" ELSE "none"
      r2 == IF base_triggered THEN "base_trigger" ELSE r1
      r3 == IF cur # tgt THEN "delta" ELSE r2
      r4 == IF step = 0 THEN "initialization" ELSE r3
  IN  [rebalance |-> limit_triggered \/ base_triggered \/ cur # tgt \/ step = 0,
       reason |-> r4]

(***************************************************************************)
(* New bounds (lines 160-161, 173-182)                                     *)
(***************************************************************************)
\* faulty variant: with target +1 the lower bound is taken above the pool
\* tick
NewLowerBoundAbove(pool_tick, bound_ticks, tgt) ==
    MinAlignedTick * (IF tgt = -1 THEN 1 ELSE 0)
  + FloorToSpacing(pool_tick - bound_ticks) * (IF tgt = 0 THEN 1 ELSE 0)
  + FloorToSpacing(pool_tick + bound_ticks) * (IF tgt = 1 THEN 1 ELSE 0)

NewLowerBound(pool_tick, bound_ticks, tgt) ==
    MinAlignedTick * (IF tgt = -1 THEN 1 ELSE 0)
  + FloorToSpacing(pool_tick - bound_ticks) * (IF tgt \in {0, 1} THEN 1 ELSE 0)

NewUpperBound(pool_tick, bound_ticks, tgt) ==
    FloorToSpacing(pool_tick + bound_ticks) * (IF tgt \in {-1, 0} THEN 1 ELSE 0)
  + MaxAlignedTick * (IF tgt = 1 THEN 1 ELSE 0)

Min(a, b) == IF a <= b THEN a ELSE b
Max(a, b) == IF a >= b THEN a ELSE b

\* faulty variant: the range is left straddling the pool tick
NewLimitBoundsStraddling(pool_tick, tgt, outside_y) ==
  [lower |-> Min(NewLowerBound(pool_tick, limit_bound_ticks, tgt),
                 FloorToSpacing(pool_tick) - spacing),
   upper |-> Max(NewUpperBound(pool_tick, limit_bound_ticks, tgt),
                 FloorToSpacing(pool_tick) + 2 * spacing)]

NewLimitBounds(pool_tick, tgt, outside_y) ==
  LET f == FloorToSpacing(pool_tick)
      lo == Min(NewLowerBound(pool_tick, limit_bound_ticks, tgt), f - spacing)
      up == Max(NewUpperBound(pool_tick, limit_bound_ticks, tgt), f + 2 * spacing)
  IN  IF RIsZero(outside_y)
      THEN [lower |-> f + spacing, upper |-> up]
      ELSE [lower |-> lo, upper |-> f]

(***************************************************************************)
(* The rebalance block (lines 151-191) on the local variables s, one       *)
(* operator per group of statements: burn all, new base bounds unless the  *)
(* reason is limit_trigger, mint base, new limit bounds, mint limit.  s    *)
(* holds outside_x, outside_y, base_x, base_y, limit_x, limit_y, the       *)
(* current base bounds, pool_tick, reason and target_position; f @@ s is   *)
(* s with the fields of f assigned.                                        *)
(***************************************************************************)
\* lines 153-155
BurnAll(s) ==
  [outside_x |-> RAdd(s.outside_x, RAdd(s.base_x, s.limit_x)),
   outside_y |-> RAdd(s.outside_y, RAdd(s.base_y, s.limit_y))] @@ s

\* faulty variant: the base bounds are recomputed whatever the reason
SetBaseBoundsAlways(s) ==
  [base_lower_bound_tick |->
     NewLowerBound(s.pool_tick, base_lower_bound_ticks, s.target_position),
   base_upper_bound_tick |->
     NewUpperBound(s.pool_tick, base_upper_bound_ticks, s.target_position)] @@ s

\* lines 157-165
SetBaseBounds(s) ==
  IF s.reason \in {"base_trigger", "delta", "initialization"}
  THEN [base_lower_bound_tick |->
          NewLowerBound(s.pool_tick, base_lower_bound_ticks, s.target_position),
        base_upper_bound_tick |->
          NewUpperBound(s.pool_tick, base_upper_bound_ticks, s.target_position)] @@ s
  ELSE s

\* lines 168-170, position being the result of mint_position
TakeBase(s, position) ==
  [base_liquidity |-> position.liquidity,
   outside_x |-> RSub(s.outside_x, position.x),
   outside_y |-> RSub(s.outside_y, position.y)] @@ s

MintBase(s) ==
  TakeBase(s, mint_position(s.outside_x, s.outside_y,
                            PriceOfTick(s.base_lower_bound_tick),
                            PriceOfTick(s.base_upper_bound_tick),
                            PriceOfTick(s.pool_tick)))

\* lines 172-182
BoundsOfLimit(bounds) ==
  [limit_lower_bound_tick |-> bounds.lower, limit_upper_bound_tick |-> bounds.upper]

SetLimitBounds(s) ==
  BoundsOfLimit(NewLimitBounds(s.pool_tick, s.target_position, s.outside_y)) @@ s

\* lines 189-191
TakeLimit(s, position) ==
  [limit_liquidity |-> position.liquidity,
   outside_x |-> RSub(s.outside_x, position.x),
   outside_y |-> RSub(s.outside_y, position.y)] @@ s

\* faulty variant: the limit position is not minted
MintLimitNothing(s) == [limit_liquidity |-> RZero] @@ s

MintLimit(s) ==
  TakeLimit(s, mint_position(s.outside_x, s.outside_y,
                             PriceOfTick(s.limit_lower_bound_tick),
                             PriceOfTick(s.limit_upper_bound_tick),
                             PriceOfTick(s.pool_tick)))

Rebalance(s) == MintLimit(SetLimitBounds(MintBase(SetBaseBounds(BurnAll(s)))))

(***************************************************************************)
(* Init: the table after lines 45-67 (row 0 only: the later rows, all      *)
(* zero but for their tick, are appended as the loop reaches them).  The   *)
(* first interval holds no swap: with no position yet, every share would   *)
(* be 0 and so would the fees.                                             *)
(***************************************************************************)
Init ==
  /\ market \in Markets
  /\ \E t \in market.first : result = <<NewRow(t)>>
  /\ swaps = <<<<>>>>
  /\ i = 0
  /\ loc = NoLocals
  /\ columns = <<>>
  /\ pc = "loop"

(***************************************************************************)
(* One iteration of the loop (lines 69-210) on row = result[i], with the   *)
(* swaps sw of the interval [timestamp[i], timestamp[i+1]) and the rates   *)
(* rt.  The local variables are a record s that the groups of statements   *)
(* extend in the order of the code.                                        *)
(***************************************************************************)
\* lines 71-82, and the fields of the row read later (lines 100-101, 121-122)
ReadRow(row, step) ==
  [step |-> step, pool_tick |-> row.tick,
   base_liquidity |-> row.base_liquidity,
   limit_liquidity |-> row.limit_liquidity,
   base_lower_bound_tick |-> row.base_lower_bound_tick,
   base_upper_bound_tick |-> row.base_upper_bound_tick,
   limit_lower_bound_tick |-> row.limit_lower_bound_tick,
   limit_upper_bound_tick |-> row.limit_upper_bound_tick,
   outside_x |-> row.outside_x, outside_y |-> row.outside_y,
   lent |-> row.lent, borrowed |-> row.borrowed]

\* lines 84-92
TokensOf(base, limit) ==
  [base_x |-> base.x, base_y |-> base.y, limit_x |-> limit.x, limit_y |-> limit.y]

PositionTokens(s) ==
  TokensOf(get_quantities(s.base_liquidity,
                          PriceOfTick(s.base_lower_bound_tick),
                          PriceOfTick(s.base_upper_bound_tick),
                          PriceOfTick(s.pool_tick)),
           get_quantities(s.limit_liquidity,
                          PriceOfTick(s.limit_lower_bound_tick),
                          PriceOfTick(s.limit_upper_bound_tick),
                          PriceOfTick(s.pool_tick))) @@ s

\* lines 94-101
WithFees(s, fees) ==
  [fees_x |-> fees.x, fees_y |-> fees.y,
   outside_x |-> RAdd(s.outside_x, fees.x),
   outside_y |-> RAdd(s.outside_y, fees.y)] @@ s

Fees(s, sw) ==
  WithFees(s, SumFees(sw, 1, s.base_liquidity,
                      s.base_lower_bound_tick, s.base_upper_bound_tick,
                      s.limit_liquidity,
                      s.limit_lower_bound_tick, s.limit_upper_bound_tick))

\* lines 104-105, 109-110
TriggerTicksOf(s) ==
  [base_lower_trigger_tick |->
     lower_trigger_tick(s.base_lower_bound_tick, base_lower_trigger_ticks),
   base_upper_trigger_tick |->
     upper_trigger_tick(s.base_upper_bound_tick, base_upper_trigger_ticks),
   limit_lower_trigger_tick |->
     lower_trigger_tick(s.limit_lower_bound_tick, limit_trigger_ticks),
   limit_upper_trigger_tick |->
     upper_trigger_tick(s.limit_upper_bound_tick, limit_trigger_ticks)] @@ s

\* lines 106, 111
Triggers(s) ==
  [base_triggered |->
     triggered(s.base_lower_trigger_tick, s.base_upper_trigger_tick, s.pool_tick),
   limit_triggered |->
     triggered(s.limit_lower_trigger_tick, s.limit_upper_trigger_tick, s.pool_tick)] @@ s

\* lines 123-125
WithDelta(s, delta) ==
  [delta |-> delta,
   current_position |->
     current_position(s.base_lower_bound_tick, s.base_upper_bound_tick),
   target_position |-> target_position(delta, s.borrowed)] @@ s

Hedging(s) ==
  WithDelta(s, RAdd(RNeg(s.borrowed),
                    RAdd(s.base_x, RAdd(s.limit_x, s.outside_x))))

\* lines 129-145
Decision(s) ==
  Decide(s.step, s.limit_triggered, s.base_triggered,
         s.current_position, s.target_position) @@ s

\* lines 146-149
Seeded(s, lent, borrowed) ==
  [lent |-> lent, borrowed |-> borrowed,
   outside_x |-> borrowed,
   outside_y |-> RSub(RInt(start_value), lent)] @@ s

Borrowing(s, lent) ==
  Seeded(s, lent, RDiv(RDiv(lent, RInt(2)), RInt(PriceOfTick(s.pool_tick))))

Initialization(s) ==
  IF s.step = 0 THEN Borrowing(s, RFrac(start_value * 2, 3)) ELSE s

\* faulty variant: a rebalance repays the loan
RebalancedRepaying(s) ==
  IF s.rebalance THEN [borrowed |-> RZero] @@ Rebalance(s) ELSE s

\* line 151
Rebalanced(s) == IF s.rebalance THEN Rebalance(s) ELSE s

\* the local variables at the end of the loop body
Locals(row, sw, step) ==
  Rebalanced(Initialization(Decision(Hedging(Triggers(TriggerTicksOf(
    Fees(PositionTokens(ReadRow(row, step)), sw)))))))

\* lines 193-210: the fields written to row i (this) and to row i+1
\* (next), and the local variables left (locals)
Writes(row, rt, s) ==
  [this |->
     [row EXCEPT !.fees_x = RNorm(s.fees_x), !.fees_y = RNorm(s.fees_y),
                 !.base_lower_trigger_tick = s.base_lower_trigger_tick,
                 !.base_upper_trigger_tick = s.base_upper_trigger_tick,
                 !.limit_lower_trigger_tick = s.limit_lower_trigger_tick,
                 !.limit_upper_trigger_tick = s.limit_upper_trigger_tick,
                 !.rebalance = s.rebalance, !.reason = s.reason],
   next |->
     [outside_x |-> RNorm(s.outside_x),
      outside_y |-> RNorm(s.outside_y),
      base_lower_bound_tick |-> s.base_lower_bound_tick,
      base_upper_bound_tick |-> s.base_upper_bound_tick,
      base_liquidity |-> RNorm(s.base_liquidity),
      limit_lower_bound_tick |-> s.limit_lower_bound_tick,
      limit_upper_bound_tick |-> s.limit_upper_bound_tick,
      limit_liquidity |-> RNorm(s.limit_liquidity),
      lent |-> RNorm(RMul(s.lent, CompoundFactor(rt.lending_apy))),
      borrowed |-> RNorm(RMul(s.borrowed, CompoundFactor(rt.borrowing_apy)))],
   locals |->
     [set |-> TRUE, pool_tick |-> s.pool_tick,
      base_triggered |-> s.base_triggered,
      limit_triggered |-> s.limit_triggered,
      delta |-> RNorm(s.delta),
      current_position |-> s.current_position,
      target_position |-> s.target_position,
      rebalance |-> s.rebalance, reason |-> s.reason,
      lent |-> s.lent, borrowed |-> RNorm(s.borrowed)]]

\* faulty variant: the lent balance of row i is cleared once it is carried
\* to row i+1
ClearLent(w) == [this |-> [w.this EXCEPT !.lent = RZero]] @@ w

IterationClearingLent(row, sw, rt, step) ==
  ClearLent(Writes(row, rt, Locals(row, sw, step)))

Iteration(row, sw, rt, step) == Writes(row, rt, Locals(row, sw, step))

\* faulty variant: the outside reserve is not written to row i+1
NextRowDroppingOutside(t, n) ==
  [NewRow(t) EXCEPT
     !.base_lower_bound_tick = n.base_lower_bound_tick,
     !.base_upper_bound_tick = n.base_upper_bound_tick,
     !.base_liquidity = n.base_liquidity,
     !.limit_lower_bound_tick = n.limit_lower_bound_tick,
     !.limit_upper_bound_tick = n.limit_upper_bound_tick,
     !.limit_liquidity = n.limit_liquidity,
     !.lent = n.lent, !.borrowed = n.borrowed]

\* row i+1: its tick from the bars, the fields the iteration wrote
NextRow(t, n) ==
  [NewRow(t) EXCEPT
     !.outside_x = n.outside_x, !.outside_y = n.outside_y,
     !.base_lower_bound_tick = n.base_lower_bound_tick,
     !.base_upper_bound_tick = n.base_upper_bound_tick,
     !.base_liquidity = n.base_liquidity,
     !.limit_lower_bound_tick = n.limit_lower_bound_tick,
     !.limit_upper_bound_tick = n.limit_upper_bound_tick,
     !.limit_liquidity = n.limit_liquidity,
     !.lent = n.lent, !.borrowed = n.borrowed]

Iterate ==
  /\ pc = "loop"
  /\ i < NumSteps
  /\ \E it \in {Iteration(result[i + 1], swaps[i + 1], market.rates, i)} :
       /\ loc' = it.locals
       /\ \E sw \in market.choices :
            /\ result' = Append([result EXCEPT ![i + 1] = it.this],
                                NextRow(BarTick(sw, result[i + 1].tick), it.next))
            /\ swaps' = Append(swaps, sw)
  /\ i' = i + 1
  /\ UNCHANGED <<market, columns>>
  /\ pc' = "loop"

(***************************************************************************)
(* After the loop (lines 212-239): liquidity_value and total_value of      *)
(* every row.                                                              *)
(***************************************************************************)
\* x*pool_price + y
ValueOf(x, p, y) == RAdd(RMul(x, p), y)

\* lines 237-239
Totals(row, liquidity_value, p) ==
  [liquidity_value |-> RNorm(liquidity_value),
   total_value |-> RNorm(RSub(RAdd(liquidity_value, row.lent),
                              RMul(row.borrowed, p)))]

\* lines 214-234 on the tokens of the two positions (get_quantities on the
\* columns of the row) and p = pool_price
LiquidityValue(row, tokens, p) ==
  RAdd(RAdd(ValueOf(tokens.base_x, p, tokens.base_y),
            ValueOf(tokens.limit_x, p, tokens.limit_y)),
       RAdd(ValueOf(row.outside_x, p, row.outside_y),
            ValueOf(row.fees_x, p, row.fees_y)))

ValueColumns(row) ==
  Totals(row, LiquidityValue(row, PositionTokens(ReadRow(row, 0)),
                             RInt(PriceOfTick(row.tick))),
         RInt(PriceOfTick(row.tick)))

Finish ==
  /\ pc = "loop"
  /\ i = NumSteps
  /\ columns' = [k \in 1..Len(result) |-> ValueColumns(result[k])]
  /\ pc' = "done"
  /\ UNCHANGED <<result, swaps, market, i, loc>>

Next == Iterate \/ Finish

Spec == Init /\ [][Next]_vars

(***************************************************************************)
(* The trigger evaluation alone (lines 103-111), for any bounds, offsets   *)
(* and pool tick: the bounds of the row, the offsets and the tick are      *)
(* drawn from small sets, and EvaluateTrigger applies the three            *)
(* statements of one position type.                                        *)
(***************************************************************************)
MaxTriggerOffset == 2
TriggerOffsets == (-MaxTriggerOffset)..MaxTriggerOffset
TriggerTicks == (-spacing - MaxTriggerOffset - 1)..(spacing + MaxTriggerOffset + 1)

InitTrigger ==
  /\ \E t \in TriggerTicks, lo \in {-spacing, 0}, up \in {0, spacing} :
       result = <<[NewRow(t) EXCEPT !.base_lower_bound_tick = lo,
                                    !.base_upper_bound_tick = up]>>
  /\ \E lower_trigger_ticks \in TriggerOffsets, upper_trigger_ticks \in TriggerOffsets :
       loc = [set |-> FALSE, lower_trigger_ticks |-> lower_trigger_ticks,
              upper_trigger_ticks |-> upper_trigger_ticks]
  /\ swaps = <<<<>>>>
  /\ market = [first |-> {}, choices |-> {}, rates |-> ZeroRates]
  /\ i = 0
  /\ columns = <<>>
  /\ pc = "trigger"

EvaluateTrigger ==
  /\ pc = "trigger"
  /\ LET row == result[1]
         lower == lower_trigger_tick(row.base_lower_bound_tick, loc.lower_trigger_ticks)
         upper == upper_trigger_tick(row.base_upper_bound_tick, loc.upper_trigger_ticks)
     IN  /\ result' = <<[row EXCEPT !.base_lower_trigger_tick = lower,
                                    !.base_upper_trigger_tick = upper]>>
         /\ loc' = [loc EXCEPT !.set = TRUE] @@
                   [base_triggered |-> triggered(lower, upper, row.tick)]
  /\ pc' = "triggered"
  /\ UNCHANGED <<swaps, market, i, columns>>

NextTrigger == EvaluateTrigger

SpecTrigger == InitTrigger /\ [][NextTrigger]_vars

(***************************************************************************)
(* mint_position on its own (lines 17-41): the arguments are drawn from    *)
(* bounded sets, the prices being squares so that their roots are exact,   *)
(* and one action applies the function.  loc holds the arguments and,      *)
(* once minted, the position returned.                                     *)
(***************************************************************************)
MaxRoot == 5
MaxAmount == 3
MintRoots == 1..MaxRoot
MintAmounts == {RNorm(RFrac(a, b)) : a \in 0..MaxAmount, b \in {1, 3}}

InitMint ==
  /\ \E x \in MintAmounts, y \in MintAmounts,
        sl \in MintRoots, su \in MintRoots, sp \in MintRoots :
       /\ sl < su
       /\ loc = [set |-> FALSE, x |-> x, y |-> y, lower_price |-> sl * sl,
                 upper_price |-> su * su, pool_price |-> sp * sp]
  /\ result = <<>>
  /\ swaps = <<>>
  /\ market = [first |-> {}, choices |-> {}, rates |-> ZeroRates]
  /\ i = 0
  /\ columns = <<>>
  /\ pc = "mint"

Mint ==
  /\ pc = "mint"
  /\ \E position \in {mint_position(loc.x, loc.y, loc.lower_price,
                                     loc.upper_price, loc.pool_price)} :
       loc' = [set |-> TRUE, position |-> position] @@ loc
  /\ pc' = "minted"
  /\ UNCHANGED <<result, swaps, market, i, columns>>

NextMint == Mint

SpecMint == InitMint /\ [][NextMint]_vars

(***************************************************************************)
(* Properties.  After an Iterate step, result[i] is the row of the step    *)
(* just executed (step i - 1 of the program), result[i + 1] the state it   *)
(* wrote, and loc the locals it left.                                      *)
(***************************************************************************)
StepDone == pc = "loop" /\ i >= 1

\* the pool tick is outside the band [lower, upper)
OutsideBand(lower, upper, tick) == tick < lower \/ tick >= upper

BaseBreached(row) ==
  OutsideBand(row.base_lower_trigger_tick, row.base_upper_trigger_tick, row.tick)
LimitBreached(row) ==
  OutsideBand(row.limit_lower_trigger_tick, row.limit_upper_trigger_tick, row.tick)
Mismatch == loc.current_position # loc.target_position

\* C1: the rebalance flag recorded for a step is true if and only if the
\* step is the first one, or the pool tick is outside the base trigger band,
\* or it is outside the limit trigger band, or the current position differs
\* from the target position.
C1_RebalanceIff ==
  StepDone =>
    (result[i].rebalance <=>
       \/ i = 1
       \/ BaseBreached(result[i])
       \/ LimitBreached(result[i])
       \/ Mismatch)

\* a later step rebalanced by the limit trigger alone
C1_Witness ==
  /\ StepDone /\ i > 1
  /\ LimitBreached(result[i]) /\ ~BaseBreached(result[i]) /\ ~Mismatch
  /\ result[i].rebalance

\* C2: a step that rebalances records exactly one of the four reason tags,
\* the first that applies of initialization (first step), delta (position
\* mismatch), base_trigger, limit_trigger; a step that does not rebalance
\* records none.
C2_ReasonPriority ==
  StepDone =>
    result[i].reason =
      IF ~result[i].rebalance THEN "none"
      ELSE IF i = 1 THEN "initialization"
      ELSE IF Mismatch THEN "delta"
      ELSE IF BaseBreached(result[i]) THEN "base_trigger"
      ELSE "limit_trigger"

\* a later step where the base trigger is breached and the positions
\* mismatch: the tag is delta
C2_Witness ==
  /\ StepDone /\ i > 1
  /\ BaseBreached(result[i]) /\ Mismatch
  /\ result[i].reason = "delta"

\* the trigger ticks and the flag of the evaluated row, as the claim
\* states them
TriggerAsStated(lowerTrigger, upperTrigger) ==
  /\ result[1].base_lower_trigger_tick = lowerTrigger
  /\ result[1].base_upper_trigger_tick = upperTrigger
  /\ loc.base_triggered <=>
       (result[1].tick < lowerTrigger \/ result[1].tick >= upperTrigger)

\* C3: with lowerTrigger = lowerBound - lowerOffset and upperTrigger =
\* upperBound + upperOffset, for any integer offsets, a position is
\* triggered exactly when poolTick < lowerTrigger or poolTick >=
\* upperTrigger: it is triggered at lowerTrigger - 1 and at upperTrigger,
\* and, when the band is not empty (lowerTrigger < upperTrigger), it is not
\* triggered at lowerTrigger nor at upperTrigger - 1.
C3_TriggerBand ==
  pc = "triggered" =>
    LET row == result[1]
        lowerTrigger == row.base_lower_bound_tick - loc.lower_trigger_ticks
        upperTrigger == row.base_upper_bound_tick + loc.upper_trigger_ticks
    IN  /\ TriggerAsStated(lowerTrigger, upperTrigger)
        /\ row.tick = lowerTrigger - 1 => loc.base_triggered
        /\ row.tick = upperTrigger => loc.base_triggered
        /\ lowerTrigger < upperTrigger =>
             /\ row.tick = lowerTrigger => ~loc.base_triggered
             /\ row.tick = upperTrigger - 1 => ~loc.base_triggered

\* C3 as stated: not triggered at lowerTrigger and at upperTrigger - 1 for
\* any offsets, an empty band included.
C3_AsStated ==
  pc = "triggered" =>
    LET row == result[1]
        lowerTrigger == row.base_lower_bound_tick - loc.lower_trigger_ticks
        upperTrigger == row.base_upper_bound_tick + loc.upper_trigger_ticks
    IN  /\ TriggerAsStated(lowerTrigger, upperTrigger)
        /\ row.tick = lowerTrigger - 1 => loc.base_triggered
        /\ row.tick = upperTrigger => loc.base_triggered
        /\ row.tick = lowerTrigger => ~loc.base_triggered
        /\ row.tick = upperTrigger - 1 => ~loc.base_triggered

\* negative offsets, the tick on the upper trigger tick: triggered
C3_Witness ==
  /\ pc = "triggered"
  /\ loc.lower_trigger_ticks < 0 /\ loc.upper_trigger_ticks < 0
  /\ result[1].base_lower_trigger_tick < result[1].base_upper_trigger_tick
  /\ result[1].tick = result[1].base_upper_trigger_tick
  /\ loc.base_triggered

\* token x and token y held by the state row (base position, limit position
\* and outside reserve), the positions valued at the price of tick
Held(row, tick) ==
  LET pool_price == PriceOfTick(tick)
      base == get_quantities(row.base_liquidity,
                             PriceOfTick(row.base_lower_bound_tick),
                             PriceOfTick(row.base_upper_bound_tick), pool_price)
      limit == get_quantities(row.limit_liquidity,
                              PriceOfTick(row.limit_lower_bound_tick),
                              PriceOfTick(row.limit_upper_bound_tick), pool_price)
  IN  [x |-> RAdd(base.x, RAdd(limit.x, row.outside_x)),
       y |-> RAdd(base.y, RAdd(limit.y, row.outside_y))]

HeldValue(h, tick) == RAdd(RMul(h.x, RInt(PriceOfTick(tick))), h.y)

SameBounds(a, b) ==
  /\ a.base_lower_bound_tick = b.base_lower_bound_tick
  /\ a.base_upper_bound_tick = b.base_upper_bound_tick
  /\ a.limit_lower_bound_tick = b.limit_lower_bound_tick
  /\ a.limit_upper_bound_tick = b.limit_upper_bound_tick

SameLiquidity(a, b) ==
  /\ REq(a.base_liquidity, b.base_liquidity)
  /\ REq(a.limit_liquidity, b.limit_liquidity)

\* C4: a step whose recorded reason is none leaves the base bounds, the base
\* liquidity, the limit bounds and the limit liquidity as they were; the
\* outside reserve grows by exactly the fees attributed in the step, and
\* lent and borrowed are multiplied by their per-step compounding factors.
C4_NoRebalanceFrame ==
  StepDone /\ result[i].reason = "none" =>
    /\ ~result[i].rebalance
    /\ SameBounds(result[i + 1], result[i])
    /\ SameLiquidity(result[i + 1], result[i])
    /\ REq(result[i + 1].outside_x, RAdd(result[i].outside_x, result[i].fees_x))
    /\ REq(result[i + 1].outside_y, RAdd(result[i].outside_y, result[i].fees_y))
    /\ REq(result[i + 1].lent,
           RMul(result[i].lent, CompoundFactor(market.rates.lending_apy)))
    /\ REq(result[i + 1].borrowed,
           RMul(result[i].borrowed, CompoundFactor(market.rates.borrowing_apy)))

\* a step without rebalance that earned fees, under non-zero rates
C4_Witness ==
  /\ StepDone /\ result[i].reason = "none"
  /\ RSign(result[i].fees_x) > 0
  /\ RSign(result[i].limit_liquidity) > 0
  /\ market.rates = ShippedRates

\* the tokens entering the burn of the step just executed: the seeded
\* reserve at the first step (lines 146-147), and at a later step the prior
\* positions' quantities at the pool price, the prior outside reserve and
\* the step's fees
EnteringBurn ==
  IF i = 1
  THEN [x |-> loc.borrowed, y |-> RSub(RInt(start_value), loc.lent)]
  ELSE LET h == Held(result[i], result[i].tick)
       IN  [x |-> RAdd(h.x, result[i].fees_x), y |-> RAdd(h.y, result[i].fees_y)]

SameTokens(a, b, tick) ==
  /\ REq(a.x, b.x)
  /\ REq(a.y, b.y)
  /\ REq(HeldValue(a, tick), HeldValue(b, tick))

\* C5: a rebalance creates or destroys no value: the token x held across
\* base position, limit position and outside reserve after the burn and
\* re-mint equals the token x entering it, likewise token y, and so does
\* the value at the step's pool price.  The tokens entering it are the
\* prior positions' quantities, the prior outside reserve and the step's
\* fees; at the first step they are the seeded reserve.
C5_Conservation ==
  StepDone /\ result[i].rebalance =>
    SameTokens(Held(result[i + 1], result[i].tick), EnteringBurn, result[i].tick)

\* a later rebalance that burns two live positions and fees
C5_Witness ==
  /\ StepDone /\ i > 1 /\ result[i].rebalance
  /\ RSign(result[i].base_liquidity) > 0
  /\ RSign(result[i].limit_liquidity) > 0
  /\ RSign(result[i].fees_x) > 0
  /\ RSign(result[i + 1].limit_liquidity) > 0

\* C5 as stated: at every rebalancing step, the first included, the tokens
\* before are the prior positions' quantities, the prior outside reserve
\* and the step's fees.
C5_AsStated ==
  StepDone /\ result[i].rebalance =>
    LET h == Held(result[i], result[i].tick)
    IN  SameTokens(Held(result[i + 1], result[i].tick),
                   [x |-> RAdd(h.x, result[i].fees_x),
                    y |-> RAdd(h.y, result[i].fees_y)],
                   result[i].tick)

\* C6: in every state written by the loop, the base and the limit position
\* have lowerTick < upperTick and bounds that are multiples of the spacing.
C6_BoundsOrderedAligned ==
  \A k \in 2..Len(result) :
    /\ result[k].base_lower_bound_tick < result[k].base_upper_bound_tick
    /\ result[k].limit_lower_bound_tick < result[k].limit_upper_bound_tick
    /\ result[k].base_lower_bound_tick % spacing = 0
    /\ result[k].base_upper_bound_tick % spacing = 0
    /\ result[k].limit_lower_bound_tick % spacing = 0
    /\ result[k].limit_upper_bound_tick % spacing = 0

\* a directional rebalance with the pool at the protocol's tick limit
C6_Witness ==
  /\ \E k \in 2..Len(result) :
       /\ result[k - 1].tick \in {-ProtocolMaxTick, ProtocolMaxTick}
       /\ result[k - 1].reason = "delta"
       /\ \/ result[k].base_upper_bound_tick = MaxAlignedTick
          \/ result[k].base_lower_bound_tick = MinAlignedTick

\* C7: the outside reserve balances and the liquidity of both positions
\* are >= 0 in every state (the swaps' fees and liquidity are >= 0).
C7_NonNegative ==
  \A k \in 1..Len(result) :
    /\ RSign(result[k].outside_x) >= 0
    /\ RSign(result[k].outside_y) >= 0
    /\ RSign(result[k].base_liquidity) >= 0
    /\ RSign(result[k].limit_liquidity) >= 0

\* a rebalance after which an in-range base position was minted from token
\* x (token y in excess), with fees earned before
C7_Witness ==
  /\ StepDone /\ i > 1 /\ result[i].rebalance
  /\ result[i + 1].base_lower_bound_tick < result[i].tick
  /\ result[i].tick < result[i + 1].base_upper_bound_tick
  /\ RSign(Held(result[i + 1], result[i].tick).y) > 0
  /\ result[i + 1].limit_upper_bound_tick = FloorToSpacing(result[i].tick)
  /\ RSign(result[i + 1].base_liquidity) > 0

\* C8: the first step always rebalances with reason initialization, whatever
\* its trigger and mismatch evaluations are; it sets lent = 2/3 startValue
\* and borrowed = lent / (2 poolPrice), seeds the reserve with outsideX =
\* borrowed and outsideY = startValue - lent, and burns and re-mints both
\* positions from it (new base bounds around the pool tick).
C8_Initialization ==
  /\ StepDone => result[1].rebalance /\ result[1].reason = "initialization"
  /\ StepDone /\ i = 1 =>
       LET tick == result[1].tick
           held == Held(result[2], tick)
       IN  /\ REq(loc.lent, RFrac(2 * start_value, 3))
           /\ REq(loc.borrowed, RDiv(loc.lent, RInt(2 * PriceOfTick(tick))))
           /\ REq(held.x, loc.borrowed)
           /\ REq(held.y, RSub(RInt(start_value), loc.lent))
           /\ result[2].base_lower_bound_tick
                = FloorToSpacing(tick - base_lower_bound_ticks)
           /\ result[2].base_upper_bound_tick
                = FloorToSpacing(tick + base_upper_bound_ticks)
           /\ RSign(result[2].base_liquidity) > 0
           /\ RSign(result[2].limit_liquidity) > 0
           /\ REq(result[2].lent,
                  RMul(loc.lent, CompoundFactor(market.rates.lending_apy)))
           /\ REq(result[2].borrowed,
                  RMul(loc.borrowed, CompoundFactor(market.rates.borrowing_apy)))

\* a first step whose limit trigger is not breached (the pool tick is
\* inside the band of the initial limit bounds 0, 0)
C8_Witness ==
  /\ StepDone /\ i = 1
  /\ ~loc.limit_triggered /\ loc.base_triggered /\ ~Mismatch
  /\ result[1].reason = "initialization"

\* total_value of row k (columns are computed after the loop)
total_value(k) == columns[k].total_value

\* C9: in a run with startValue = 1 and both rates zero, for every step
\* after the first at which the pool tick of the next state equals the pool
\* tick of the current one and neither the step's interval nor the next
\* one contains a swap, total_value of the next state equals total_value of
\* the current one.
C9_NoDrift ==
  pc = "done" /\ market.rates = ZeroRates =>
    \A k \in 2..(Len(result) - 1) :
      /\ result[k + 1].tick = result[k].tick
      /\ swaps[k] = <<>>
      /\ swaps[k + 1] = <<>>
      => REq(total_value(k + 1), total_value(k))

\* a run with zero rates, a quiet second and third interval, the value
\* being the start value
C9_Witness ==
  /\ pc = "done" /\ market.rates = ZeroRates
  /\ result[3].tick = result[2].tick /\ swaps[2] = <<>> /\ swaps[3] = <<>>
  /\ REq(total_value(2), RInt(start_value))
  /\ REq(total_value(3), RInt(start_value))

\* C9 as stated: for every step, the first included, at which the pool tick
\* of the next state equals that of the current one and the step's interval
\* contains no swap.
C9_AsStated ==
  pc = "done" /\ market.rates = ZeroRates =>
    \A k \in 1..(Len(result) - 1) :
      /\ result[k + 1].tick = result[k].tick
      /\ swaps[k] = <<>>
      => REq(total_value(k + 1), total_value(k))

\* C9 as stated, for the steps after the first only
C9_AsStatedLater ==
  pc = "done" /\ market.rates = ZeroRates =>
    \A k \in 2..(Len(result) - 1) :
      /\ result[k + 1].tick = result[k].tick
      /\ swaps[k] = <<>>
      => REq(total_value(k + 1), total_value(k))

\* the result of rebalancing again the state the step just wrote, at the
\* same pool tick and with the same reason, no swap and no compounding in
\* between (the target position is evaluated on that state, lines 120-125)
RebalancedAgain ==
  LET row == result[i + 1]
      tick == result[i].tick
      pool_price == PriceOfTick(tick)
      base == get_quantities(row.base_liquidity,
                             PriceOfTick(row.base_lower_bound_tick),
                             PriceOfTick(row.base_upper_bound_tick), pool_price)
      limit == get_quantities(row.limit_liquidity,
                              PriceOfTick(row.limit_lower_bound_tick),
                              PriceOfTick(row.limit_upper_bound_tick), pool_price)
      delta == RAdd(RNeg(loc.borrowed), RAdd(base.x, RAdd(limit.x, row.outside_x)))
  IN  Rebalance([outside_x |-> row.outside_x, outside_y |-> row.outside_y,
                 base_x |-> base.x, base_y |-> base.y,
                 limit_x |-> limit.x, limit_y |-> limit.y,
                 base_lower_bound_tick |-> row.base_lower_bound_tick,
                 base_upper_bound_tick |-> row.base_upper_bound_tick,
                 pool_tick |-> tick, reason |-> result[i].reason,
                 target_position |-> target_position(delta, loc.borrowed)])

\* C10: rebalancing is idempotent: a second rebalance of the resulting
\* state, with the same pool tick and the same reason, no swaps and no
\* compounding in between, yields the same base bounds, limit bounds, base
\* liquidity, limit liquidity and outside reserve as the first.
C10_Idempotent ==
  StepDone /\ result[i].rebalance =>
    LET again == RebalancedAgain
    IN  /\ SameBounds(again, result[i + 1])
        /\ SameLiquidity(again, result[i + 1])
        /\ REq(again.outside_x, result[i + 1].outside_x)
        /\ REq(again.outside_y, result[i + 1].outside_y)

\* a directional (delta) rebalance of two live positions
C10_Witness ==
  /\ StepDone /\ result[i].reason = "delta"
  /\ loc.target_position # 0
  /\ RSign(result[i].base_liquidity) > 0
  /\ RSign(result[i + 1].base_liquidity) > 0
  /\ RSign(result[i + 1].limit_liquidity) > 0

(***************************************************************************)
(* The steps already executed are the rows result[1..i]; row k was read    *)
(* by program step k - 1, whose ratio delta/borrowed (line 125) divides by *)
(* result[k].borrowed.                                                     *)
(***************************************************************************)
\* C11: whenever the ratio delta/borrowed is requested while the borrowed
\* balance is zero, the run ends in the fatal DegenerateHedgeState and
\* writes no further state; this covers the first step.
C11_AsStated ==
  \A k \in 1..i :
    RIsZero(result[k].borrowed) =>
      pc = "DegenerateHedgeState" /\ Len(result) = k

(***************************************************************************)
(* The frame of an iteration.  Only Iterate increments i; the iteration    *)
(* with loop index i works on program row i, which is result[i + 1].       *)
(***************************************************************************)
\* the fields carried from one row to the next (lines 195-210) and the tick
SameState(a, b) ==
  /\ a.tick = b.tick
  /\ a.outside_x = b.outside_x /\ a.outside_y = b.outside_y
  /\ a.base_lower_bound_tick = b.base_lower_bound_tick
  /\ a.base_upper_bound_tick = b.base_upper_bound_tick
  /\ a.base_liquidity = b.base_liquidity
  /\ a.limit_lower_bound_tick = b.limit_lower_bound_tick
  /\ a.limit_upper_bound_tick = b.limit_upper_bound_tick
  /\ a.limit_liquidity = b.limit_liquidity
  /\ a.lent = b.lent /\ a.borrowed = b.borrowed

\* the fields an iteration writes to its own row are still blank
BlankOutputs(row) ==
  /\ row.fees_x = RZero /\ row.fees_y = RZero
  /\ row.base_lower_trigger_tick = 0 /\ row.base_upper_trigger_tick = 0
  /\ row.limit_lower_trigger_tick = 0 /\ row.limit_upper_trigger_tick = 0
  /\ ~row.rebalance /\ row.reason = "none"

\* C12 (as amended): iteration i modifies no row before row i, leaves the
\* state fields of row i (tick, outside reserve, bounds, liquidity, lent,
\* borrowed) as they are, and writes to row i only its fees, trigger
\* ticks, rebalance flag and reason, which were blank until then; the row
\* it appends is row i+1.
C12_Frame ==
  [][i' = i + 1 =>
       /\ \A k \in 1..i : result'[k] = result[k]
       /\ SameState(result'[i + 1], result[i + 1])
       /\ BlankOutputs(result[i + 1])
       /\ Len(result') = i + 2]_vars

\* C12 (as stated): iteration i writes only fields of state[i+1]; no field
\* of state[i] or of an earlier state is modified by iteration i.
C12_AsStated ==
  [][i' = i + 1 => \A k \in 1..(i + 1) : result'[k] = result[k]]_vars

\* the last step has written fees and a rebalance reason into its own row,
\* with earlier rows in the table
C12_Witness ==
  /\ StepDone /\ i = NumSteps
  /\ result[i].rebalance /\ result[i].reason = "limit_trigger"
  /\ RSign(result[i].fees_x) > 0
  /\ RSign(result[i].lent) > 0

(***************************************************************************)
(* Base bounds at a rebalance                                              *)
(***************************************************************************)
\* the reasons under which lines 157-165 run
Recomputing == result[i].reason \in {"base_trigger", "delta", "initialization"}

\* C13: a rebalance whose reason is limit_trigger leaves the base lower and
\* upper bound ticks exactly as they were; under base_trigger, delta and
\* initialization they are recomputed from the pool tick and the target
\* position.
C13_BaseBoundsKept ==
  StepDone /\ result[i].rebalance =>
    IF result[i].reason = "limit_trigger"
    THEN /\ result[i + 1].base_lower_bound_tick = result[i].base_lower_bound_tick
         /\ result[i + 1].base_upper_bound_tick = result[i].base_upper_bound_tick
    ELSE /\ Recomputing
         /\ result[i + 1].base_lower_bound_tick =
              NewLowerBound(result[i].tick, base_lower_bound_ticks,
                            loc.target_position)
         /\ result[i + 1].base_upper_bound_tick =
              NewUpperBound(result[i].tick, base_upper_bound_ticks,
                            loc.target_position)

\* a limit_trigger rebalance at a tick where recomputing would have moved
\* the base bounds
C13_Witness ==
  /\ StepDone /\ result[i].reason = "limit_trigger"
  /\ result[i].base_lower_bound_tick #
       NewLowerBound(result[i].tick, base_lower_bound_ticks, loc.target_position)
  /\ RSign(result[i + 1].base_liquidity) > 0

\* t rounded down to the spacing grid
GridFloor(t) == t - (t % spacing)

\* C14 (as amended): when the base bounds are recomputed, target +1 gives
\* the range from (poolTick - lowerOffset) rounded down to the grid up to
\* the protocol max aligned tick, target -1 the range from the protocol min
\* aligned tick up to (poolTick + upperOffset) rounded down, and target 0
\* the range from (poolTick - lowerOffset) to (poolTick + upperOffset),
\* each rounded down.
C14_BaseBounds ==
  StepDone /\ result[i].rebalance /\ Recomputing =>
    /\ result[i + 1].base_lower_bound_tick =
         IF loc.target_position = -1
         THEN MinAlignedTick
         ELSE GridFloor(result[i].tick - base_lower_bound_ticks)
    /\ result[i + 1].base_upper_bound_tick =
         IF loc.target_position = 1
         THEN MaxAlignedTick
         ELSE GridFloor(result[i].tick + base_upper_bound_ticks)

\* C14 (as stated): target +1 gives the range from (poolTick + upperOffset)
\* rounded down up to the protocol max aligned tick, target -1 the range
\* from the protocol min aligned tick up to (poolTick - lowerOffset) rounded
\* down, target 0 as above.
C14_AsStated ==
  StepDone /\ result[i].rebalance /\ Recomputing =>
    /\ result[i + 1].base_lower_bound_tick =
         CASE loc.target_position = 1 ->
                GridFloor(result[i].tick + base_upper_bound_ticks)
           [] loc.target_position = -1 -> MinAlignedTick
           [] OTHER -> GridFloor(result[i].tick - base_lower_bound_ticks)
    /\ result[i + 1].base_upper_bound_tick =
         CASE loc.target_position = 1 -> MaxAlignedTick
           [] loc.target_position = -1 ->
                GridFloor(result[i].tick - base_lower_bound_ticks)
           [] OTHER -> GridFloor(result[i].tick + base_upper_bound_ticks)

\* a recomputation under target +1 at a tick off the grid
C14_Witness ==
  /\ StepDone /\ result[i].rebalance /\ Recomputing
  /\ loc.target_position = 1
  /\ result[i].tick % spacing # 0

(***************************************************************************)
(* The limit position after a rebalance                                    *)
(***************************************************************************)
\* the tokens in the base position written by the step just executed, at
\* the step's pool price
NewBase ==
  get_quantities(result[i + 1].base_liquidity,
                 PriceOfTick(result[i + 1].base_lower_bound_tick),
                 PriceOfTick(result[i + 1].base_upper_bound_tick),
                 PriceOfTick(result[i].tick))

\* likewise the tokens in the limit position
NewLimit ==
  get_quantities(result[i + 1].limit_liquidity,
                 PriceOfTick(result[i + 1].limit_lower_bound_tick),
                 PriceOfTick(result[i + 1].limit_upper_bound_tick),
                 PriceOfTick(result[i].tick))

\* token y left outside once the base position is minted (line 170)
YAfterBase == RSub(EnteringBurn.y, NewBase.y)

\* token x left outside once the base position is minted (line 169)
XAfterBase == RSub(EnteringBurn.x, NewBase.x)

\* C15 (as amended): after every rebalance the limit position is
\* single-sided: if no token Y remains outside after the base re-mint, the
\* limit lower bound is strictly above the pool tick and the limit mint
\* consumes only token X, and none at all when no token X remains either;
\* otherwise the limit upper bound is at or below the pool tick and the
\* limit mint consumes only token Y.
C15_SingleSided ==
  StepDone /\ result[i].rebalance =>
    IF RIsZero(YAfterBase)
    THEN /\ result[i + 1].limit_lower_bound_tick > result[i].tick
         /\ RIsZero(NewLimit.y)
         /\ (RSign(NewLimit.x) > 0 <=> RSign(XAfterBase) > 0)
    ELSE /\ result[i + 1].limit_upper_bound_tick <= result[i].tick
         /\ RIsZero(NewLimit.x)
         /\ RSign(NewLimit.y) > 0

\* C15 (as stated): as above, and in both cases exactly one of the two
\* tokens is deployed into the limit position.
C15_AsStated ==
  StepDone /\ result[i].rebalance =>
    IF RIsZero(YAfterBase)
    THEN /\ result[i + 1].limit_lower_bound_tick > result[i].tick
         /\ RIsZero(NewLimit.y)
         /\ RSign(NewLimit.x) > 0
    ELSE /\ result[i + 1].limit_upper_bound_tick <= result[i].tick
         /\ RIsZero(NewLimit.x)
         /\ RSign(NewLimit.y) > 0

\* a later rebalance after which token Y is left and goes into a limit
\* range below the pool tick
C15_Witness ==
  /\ StepDone /\ result[i].rebalance /\ i > 1
  /\ RSign(YAfterBase) > 0
  /\ RSign(result[i + 1].limit_liquidity) > 0
  /\ result[i + 1].limit_upper_bound_tick <= result[i].tick

(***************************************************************************)
(* mint_position as a function of its arguments                            *)
(***************************************************************************)
\* the pool price lies strictly inside the range
MintInRange == loc.lower_price < loc.pool_price /\ loc.pool_price < loc.upper_price

\* C16: for all x, y >= 0, all 0 < lowerPrice < upperPrice and any positive
\* poolPrice, mint_position returns usedX <= x and usedY <= y, in range,
\* below range and above range alike; in range at least one of usedX = x
\* or usedY = y holds.
C16_MintWithinBudget ==
  pc = "minted" =>
    /\ RLeq(loc.position.x, loc.x)
    /\ RLeq(loc.position.y, loc.y)
    /\ MintInRange => REq(loc.position.x, loc.x) \/ REq(loc.position.y, loc.y)

\* an in-range mint sized by token x: all of x used, some of y left
C16_Witness ==
  /\ pc = "minted" /\ MintInRange
  /\ REq(loc.position.x, loc.x)
  /\ RLess(loc.position.y, loc.y)
  /\ RSign(loc.position.y) > 0

(***************************************************************************)
(* Fees of a step                                                          *)
(***************************************************************************)
\* the swap's tick lies in the range [lower, upper)
Covers(lower, upper, swap) == lower <= swap.tick /\ swap.tick < upper

\* the strategy's liquidity active at a swap, given the positions of row
ActiveLiquidity(row, swap) ==
  RAdd(IF Covers(row.base_lower_bound_tick, row.base_upper_bound_tick, swap)
       THEN row.base_liquidity ELSE RZero,
       IF Covers(row.limit_lower_bound_tick, row.limit_upper_bound_tick, swap)
       THEN row.limit_liquidity ELSE RZero)

\* activeLiquidity / (activeLiquidity + poolLiquidity)
FeeShare(row, swap) ==
  RDiv(ActiveLiquidity(row, swap),
       RAdd(ActiveLiquidity(row, swap), RInt(swap.liquidity)))

\* the sum over the swaps sw[k..] of share times the swap's fee in token x
\* (tok = "x") or token y
RECURSIVE ShareOfFees(_, _, _, _)
ShareOfFees(row, sw, k, tok) ==
  IF k > Len(sw) THEN RZero
  ELSE RAdd(RMul(FeeShare(row, sw[k]),
                 RInt(IF tok = "x" THEN sw[k].fees_x ELSE sw[k].fees_y)),
            ShareOfFees(row, sw, k + 1, tok))

\* C17: the fees of a step are, per swap of the step's interval, the swap's
\* fee times activeLiquidity / (activeLiquidity + poolLiquidity), summed
\* over the swaps of the interval and over no other swap, where the active
\* liquidity is the base liquidity if the swap tick lies in the base range
\* plus the limit liquidity if it lies in the limit range; token x and
\* token y fees alike.
C17_FeeShare ==
  StepDone =>
    /\ REq(result[i].fees_x, ShareOfFees(result[i], swaps[i], 1, "x"))
    /\ REq(result[i].fees_y, ShareOfFees(result[i], swaps[i], 1, "y"))

\* a step with a swap inside both the base and the limit range
C17_Witness ==
  /\ StepDone
  /\ RSign(result[i].limit_liquidity) > 0 /\ RSign(result[i].base_liquidity) > 0
  /\ \E k \in 1..Len(swaps[i]) :
       /\ Covers(result[i].limit_lower_bound_tick,
                 result[i].limit_upper_bound_tick, swaps[i][k])
       /\ Covers(result[i].base_lower_bound_tick,
                 result[i].base_upper_bound_tick, swaps[i][k])

(***************************************************************************)
(* The outside reserve after a rebalance                                   *)
(***************************************************************************)
\* C18: after every rebalance, in exact arithmetic, both outside_x and
\* outside_y written to the next state are zero: what the base mint leaves
\* of one token is wholly taken by the limit mint.
C18_NothingOutside ==
  StepDone /\ result[i].rebalance =>
    /\ RIsZero(result[i + 1].outside_x)
    /\ RIsZero(result[i + 1].outside_y)

\* a later rebalance that burns two live positions, collects fees, and
\* leaves a token for the limit position
C18_Witness ==
  /\ StepDone /\ result[i].rebalance /\ i > 1
  /\ RSign(result[i].fees_y) > 0
  /\ RSign(result[i].base_liquidity) > 0
  /\ RSign(XAfterBase) > 0 \/ RSign(YAfterBase) > 0
  /\ RSign(result[i + 1].limit_liquidity) > 0

(***************************************************************************)
(* The loan across a step                                                  *)
(***************************************************************************)
\* delta (line 123) recomputed on the state the step wrote, at the step's
\* pool price and with the step's borrowed balance
DeltaAfter ==
  RAdd(RNeg(loc.borrowed), Held(result[i + 1], result[i].tick).x)

\* C19: for every step i >= 1, lent and borrowed of state[i+1] are those of
\* state[i] times their compounding factor, whether or not the step
\* rebalances; and a rebalance leaves the total of token x unchanged, so
\* that delta is the same immediately before and after it.
C19_LoanUntouched ==
  /\ StepDone /\ i > 1 =>
       /\ REq(result[i + 1].lent,
              RMul(result[i].lent, CompoundFactor(market.rates.lending_apy)))
       /\ REq(result[i + 1].borrowed,
              RMul(result[i].borrowed, CompoundFactor(market.rates.borrowing_apy)))
  /\ StepDone /\ result[i].rebalance => REq(DeltaAfter, loc.delta)

\* a directional rebalance at a later step, under non-zero rates
C19_Witness ==
  /\ StepDone /\ i > 1 /\ result[i].rebalance
  /\ market.rates = ShippedRates
  /\ RSign(loc.delta) # 0
  /\ loc.target_position # 0
  /\ RSign(result[i].fees_x) > 0

(***************************************************************************)
(* A quiet step after a rebalance                                          *)
(***************************************************************************)
\* the pool tick is far enough from the protocol limits for no bound to
\* reach them unless the target position asks for it
WellInside(t) ==
  /\ MinAlignedTick + limit_bound_ticks + 2 * spacing < t
  /\ t < MaxAlignedTick - limit_bound_ticks - 2 * spacing

\* the row the next step would write into its own row, were its bar to
\* carry the same tick and its interval no swap
QuietNextStep ==
  Iteration([result[i + 1] EXCEPT !.tick = result[i].tick], <<>>,
            market.rates, i).this

\* C20: under the shipped parameters (trigger offsets -30/-30/150, bounds
\* 300/300/400, spacing 60) and zero lending and borrowing rates, with the
\* pool tick well inside the protocol limits: if step i rebalances, and the
\* bar of step i+1 carries the same pool tick with no swap in its
\* interval, then step i+1 does not rebalance.  Checked on the steps the
\* run executed and, for the last step executed, on the step that would
\* follow.
C20_NoSecondRebalance ==
  market.rates = ZeroRates =>
    /\ \A k \in 1..(i - 1) :
         /\ result[k].rebalance /\ WellInside(result[k].tick)
         /\ result[k + 1].tick = result[k].tick /\ swaps[k + 1] = <<>>
         => ~result[k + 1].rebalance
    /\ StepDone /\ result[i].rebalance /\ WellInside(result[i].tick)
         => ~QuietNextStep.rebalance

\* a limit_trigger rebalance at a later step, whose quiet successor is
\* evaluated
C20_Witness ==
  /\ market.rates = ZeroRates
  /\ StepDone /\ i > 1 /\ result[i].rebalance /\ WellInside(result[i].tick)
  /\ result[i].reason = "limit_trigger"
  /\ ~QuietNextStep.rebalance

====
